---- MODULE Spec2Model ----
(***************************************************************************)
(* Model of examples/screensharing/src/main.rs: the capture callback       *)
(* (closure over stream_width, stream_height, video_frame, video_source),  *)
(* the capacity-1 channel that hands the video source to the Tokio         *)
(* context, the Ctrl-C task and the pump loop of main.                     *)
(***************************************************************************)
EXTENDS Integers, Naturals, Sequences, FiniteSets, TLC

\* ---------------------------------------------------------------- bounds
\* Number of capturer.capture_frame() calls explored.
MaxTicks == 4

\* Longest list capturer.get_source_list() returns.
MaxSources == 3

\* Frame widths and heights the capturer may deliver.
Widths == {3, 1920}
Heights == {3, 1080}

\* ------------------------------------------------------ program constants
InitialWidth == 1920
InitialHeight == 1080
ChannelCapacity == 1
InitialTimestamp == 0

\* ------------------------------------------------------------------ types
None == [tag |-> "None"]

CaptureResults == {"Success", "ErrorTemporary", "ErrorPermanent"}
ErrorResults == {"ErrorTemporary", "ErrorPermanent"}

\* A DesktopFrame as the callback sees it: its dimensions and its pixels
\* (the pixels are identified by the ordinal of the tick that captured them).
DesktopFrames(id) == [width : Widths, height : Heights, data : {id}]

VARIABLES
    pc,               \* position of the pump loop of main
    ctrl_c_received,  \* the AtomicBool shared with the Ctrl-C task
    stream_width,     \* callback state
    stream_height,    \* callback state
    video_frame,      \* callback state: the reusable VideoFrame
    video_source,     \* callback state: Option<NativeVideoSource>
    chan,             \* items queued in the mpsc channel
    track,            \* the source the published (or publishing) track wraps
    ticks,            \* history: calls of capturer.capture_frame()
    callbacks,        \* history: invocations of the callback
    okFrames,         \* history: callback invocations with an ok status
    sendAttempts,     \* history: polls of video_source_sender.send(..)
    sinksCreated,     \* history: calls of NativeVideoSource::new
    sinkFrames,       \* history: frames passed to video_source.capture_frame
    polls,            \* history: calls of video_source_receiver.try_recv()
    publishCalls,     \* history: calls of publish_track
    published,        \* history: publish_track calls that returned Ok
    publishFailures,  \* history: publish_track calls that returned Err
    sleeps,           \* history: calls of tokio::time::sleep
    lastResult,       \* history: status of the latest callback invocation
    lastFrame,        \* history: frame of the latest callback invocation
    firstOk,          \* history: frame of the first ok callback invocation
    firstLoad,        \* history: value the first load of the flag returned
    sources,          \* the list capturer.get_source_list() returned
    selected_source,  \* Option<CaptureSource> passed to start_capture
    pickerCalls,      \* history: calls of inquire::Select::prompt
    atFlag            \* history: pc, ticks, publish calls when the flag was set

cbVars == <<stream_width, stream_height, video_frame, video_source, chan>>
cbHist == <<callbacks, okFrames, sendAttempts, sinksCreated, sinkFrames, lastResult,
            lastFrame, firstOk>>
selVars == <<sources, selected_source, pickerCalls>>
loopHist == <<ticks, polls, publishCalls, published, publishFailures, sleeps,
              firstLoad>>
vars == <<pc, ctrl_c_received, stream_width, stream_height, video_frame,
          video_source, chan, track, ticks, callbacks, okFrames,
          sendAttempts, sinksCreated, sinkFrames, polls, publishCalls,
          published, publishFailures, sleeps, lastResult, lastFrame, firstOk,
          firstLoad, sources, selected_source, pickerCalls, atFlag>>

\* ---------------------------------------------------------------- helpers
\* Variant: the arguments of I420Buffer::new are passed in the wrong order.
I420Buffer_new_Swapped(width, height) ==
    [width |-> height, height |-> width, data |-> 0]

\* I420Buffer::new(width, height): a fresh buffer of that size, not written yet.
I420Buffer_new(width, height) ==
    [width |-> width, height |-> height, data |-> 0]

\* I420Buffer::chroma_width() and chroma_height(): half the luma size,
\* rounded up.
chroma_width(buffer) == (buffer.width + 1) \div 2
chroma_height(buffer) == (buffer.height + 1) \div 2

\* The planes of an I420Buffer as (columns, rows) of samples.
Planes(buffer) ==
    [y |-> <<buffer.width, buffer.height>>,
     u |-> <<chroma_width(buffer), chroma_height(buffer)>>,
     v |-> <<chroma_width(buffer), chroma_height(buffer)>>]

\* NativeVideoSource::new(VideoResolution {width, height}).
NativeVideoSource_new(id, width, height) ==
    [tag |-> "Some", id |-> id, width |-> width, height |-> height]

\* yuv_helper::argb_to_i420 into the buffer: the planes now hold the frame.
argb_to_i420(buffer, frame) ==
    [buffer EXCEPT !.data = frame.data]

\* Variant: the first poll of the send future is always pending.
SendPolledOnce_Pending(queue, value) == queue

\* One poll of the future video_source_sender.send(value): the value is
\* enqueued when a permit is free, otherwise the future is pending and is
\* dropped with the value.
SendPolledOnce(queue, value) ==
    IF Len(queue) < ChannelCapacity THEN Append(queue, value) ELSE queue

\* ------------------------------------------------------------------- Init
\* The state main has built when it asks for the source list: the channel,
\* the closure's captured variables and the flag.
Constructed ==
    /\ ctrl_c_received = FALSE
    /\ stream_width = InitialWidth
    /\ stream_height = InitialHeight
    /\ video_frame = [buffer |-> I420Buffer_new(InitialWidth, InitialHeight),
                      timestamp_us |-> InitialTimestamp]
    /\ video_source = None
    /\ chan = <<>>
    /\ track = None
    /\ ticks = 0
    /\ callbacks = 0
    /\ okFrames = 0
    /\ sendAttempts = 0
    /\ sinksCreated = 0
    /\ sinkFrames = <<>>
    /\ polls = 0
    /\ publishCalls = 0
    /\ published = 0
    /\ publishFailures = 0
    /\ sleeps = 0
    /\ lastResult = "none"
    /\ lastFrame = None
    /\ firstOk = None
    /\ firstLoad = "none"
    /\ atFlag = None

\* The pump loop is about to start; the platform listed no source, so
\* start_capture was given None.
Init ==
    /\ pc = "check"
    /\ sources = <<>>
    /\ selected_source = None
    /\ pickerCalls = 0
    /\ Constructed

\* --------------------------------------------------------------- callback
\* Variant: the reallocation is guarded by && instead of ||.
ResolutionChanged_Both(width, height) ==
    width # stream_width /\ height # stream_height

\* The test that guards the reallocation of the buffer.
ResolutionChanged(width, height) ==
    width # stream_width \/ height # stream_height

\* Variant: the source is created with the resolution known before the frame.
VideoResolution_Stale(width, height) ==
    [width |-> stream_width, height |-> stream_height]

\* The VideoResolution the video source is created with.
VideoResolution(width, height) ==
    [width |-> width, height |-> height]

\* Variant: a frame whose size differs from the source's replaces the source.
WriteFrame_Recreate(converted) ==
    IF converted.buffer.width # video_source.width
          \/ converted.buffer.height # video_source.height
       THEN LET video_source_inner ==
                    NativeVideoSource_new(sinksCreated + 1,
                        converted.buffer.width, converted.buffer.height)
            IN  /\ sinksCreated' = sinksCreated + 1
                /\ video_source' = video_source_inner
                /\ UNCHANGED <<chan, sendAttempts, sinkFrames>>
       ELSE /\ sinkFrames' = Append(sinkFrames,
                   [sink |-> video_source.id,
                    width |-> converted.buffer.width,
                    height |-> converted.buffer.height,
                    data |-> converted.buffer.data,
                    timestamp_us |-> converted.timestamp_us])
            /\ UNCHANGED <<video_source, chan, sendAttempts, sinksCreated>>

\* video_source.capture_frame(&video_frame) on the source that exists.
WriteFrame(converted) ==
    /\ sinkFrames' = Append(sinkFrames,
           [sink |-> video_source.id,
            width |-> converted.buffer.width,
            height |-> converted.buffer.height,
            data |-> converted.buffer.data,
            timestamp_us |-> converted.timestamp_us])
    /\ UNCHANGED <<video_source, chan, sendAttempts, sinksCreated>>

\* Variant: the channel is given a second, separately created source
\* instead of a clone of the stored one.
CreateSource_SendsOther(width, height) ==
    LET resolution == VideoResolution(width, height)
        video_source_inner ==
            NativeVideoSource_new(sinksCreated + 1, resolution.width,
                                  resolution.height)
        other ==
            NativeVideoSource_new(sinksCreated + 2, resolution.width,
                                  resolution.height)
    IN  /\ sinksCreated' = sinksCreated + 2
        /\ chan' = SendPolledOnce(chan, other)
        /\ sendAttempts' = sendAttempts + 1
        /\ video_source' = video_source_inner
        /\ UNCHANGED sinkFrames

\* Variant: the frame that creates the source is written into it as well.
CreateSource_AlsoWrites(width, height) ==
    LET resolution == VideoResolution(width, height)
        video_source_inner ==
            NativeVideoSource_new(sinksCreated + 1, resolution.width,
                                  resolution.height)
    IN  /\ sinksCreated' = sinksCreated + 1
        /\ chan' = SendPolledOnce(chan, video_source_inner)
        /\ sendAttempts' = sendAttempts + 1
        /\ video_source' = video_source_inner
        /\ sinkFrames' = Append(sinkFrames,
               [sink |-> video_source_inner.id,
                width |-> video_frame'.buffer.width,
                height |-> video_frame'.buffer.height,
                data |-> video_frame'.buffer.data,
                timestamp_us |-> video_frame'.timestamp_us])

\* Variant: the created source is sent but never stored in video_source.
CreateSource_NoStore(width, height) ==
    LET resolution == VideoResolution(width, height)
        video_source_inner ==
            NativeVideoSource_new(sinksCreated + 1, resolution.width,
                                  resolution.height)
    IN  /\ sinksCreated' = sinksCreated + 1
        /\ chan' = SendPolledOnce(chan, video_source_inner)
        /\ sendAttempts' = sendAttempts + 1
        /\ UNCHANGED <<video_source, sinkFrames>>

\* First ok frame: create the source, poll the send future once, store it.
CreateSource(width, height) ==
    LET resolution == VideoResolution(width, height)
        video_source_inner ==
            NativeVideoSource_new(sinksCreated + 1, resolution.width,
                                  resolution.height)
    IN  /\ sinksCreated' = sinksCreated + 1
        /\ chan' = SendPolledOnce(chan, video_source_inner)
        /\ sendAttempts' = sendAttempts + 1
        /\ video_source' = video_source_inner
        /\ UNCHANGED sinkFrames

\* The closure body after the match: resolution check, conversion, then
\* either a write into the existing source or the creation and hand-off of
\* the source.
CallbackConvert(frame) ==
    /\ LET width == frame.width
           height == frame.height
           changed == ResolutionChanged(width, height)
           buffer == IF changed THEN I420Buffer_new(width, height)
                                ELSE video_frame.buffer
           converted == [video_frame EXCEPT
                            !.buffer = argb_to_i420(buffer, frame)]
           sw == IF changed THEN width ELSE stream_width
           sh == IF changed THEN height ELSE stream_height
       IN  /\ stream_width' = sw
           /\ stream_height' = sh
           /\ video_frame' = converted
           /\ IF video_source # None
                 THEN WriteFrame(converted)
                 ELSE CreateSource(sw, sh)
    /\ okFrames' = okFrames + 1
    /\ firstOk' = IF firstOk = None THEN frame ELSE firstOk

\* Variant: the ErrorPermanent arm lacks its return and falls through.
CallbackError_NoReturn(result, frame) ==
    /\ result \in ErrorResults
    /\ IF result = "ErrorPermanent"
          THEN CallbackConvert(frame)
          ELSE /\ UNCHANGED cbVars
               /\ UNCHANGED <<okFrames, sendAttempts, sinksCreated,
                              sinkFrames, firstOk>>

\* The early returns of the match on result.
CallbackError(result, frame) ==
    /\ result \in ErrorResults
    /\ UNCHANGED cbVars
    /\ UNCHANGED <<okFrames, sendAttempts, sinksCreated, sinkFrames, firstOk>>

\* The closure body for a status that is not an error.
CallbackOk(result, frame) ==
    /\ result \notin ErrorResults
    /\ CallbackConvert(frame)

\* The closure registered with DesktopCapturer::new.
Callback(result, frame) ==
    /\ \/ CallbackError(result, frame)
       \/ CallbackOk(result, frame)
    /\ callbacks' = callbacks + 1
    /\ lastResult' = result
    /\ lastFrame' = frame

\* -------------------------------------------------------------- pump loop
\* Variant: the set flag is logged but the loop does not break.
LoopCheck_NoBreak ==
    /\ pc = "check"
    /\ pc' = "capture"
    /\ firstLoad' = IF firstLoad # "none" THEN firstLoad
                    ELSE IF ctrl_c_received THEN "set" ELSE "unset"
    /\ UNCHANGED <<selVars, atFlag>>
    /\ UNCHANGED <<ctrl_c_received, track, ticks, polls, publishCalls,
                   published, publishFailures, sleeps>>
    /\ UNCHANGED cbVars
    /\ UNCHANGED cbHist

\* Variant: the flag is honoured only once an iteration has run.
LoopCheck_CheckLast ==
    /\ pc = "check"
    /\ pc' = IF ctrl_c_received /\ ticks > 0 THEN "done" ELSE "capture"
    /\ firstLoad' = IF firstLoad # "none" THEN firstLoad
                    ELSE IF ctrl_c_received THEN "set" ELSE "unset"
    /\ UNCHANGED <<selVars, atFlag>>
    /\ UNCHANGED <<ctrl_c_received, track, ticks, polls, publishCalls,
                   published, publishFailures, sleeps>>
    /\ UNCHANGED cbVars
    /\ UNCHANGED cbHist

\* Top of the loop: load the flag, break when it is set.
LoopCheck ==
    /\ pc = "check"
    /\ pc' = IF ctrl_c_received THEN "done" ELSE "capture"
    /\ firstLoad' = IF firstLoad # "none" THEN firstLoad
                    ELSE IF ctrl_c_received THEN "set" ELSE "unset"
    /\ UNCHANGED <<selVars, atFlag>>
    /\ UNCHANGED <<ctrl_c_received, track, ticks, polls, publishCalls,
                   published, publishFailures, sleeps>>
    /\ UNCHANGED cbVars
    /\ UNCHANGED cbHist

\* Variant: a permanent capture error ends the loop.
LoopCaptureDelivers_StopOnPermanent ==
    /\ pc = "capture"
    /\ ticks < MaxTicks
    /\ \E result \in CaptureResults, frame \in DesktopFrames(ticks + 1) :
           /\ Callback(result, frame)
           /\ pc' = IF result = "ErrorPermanent" THEN "done" ELSE "poll"
    /\ ticks' = ticks + 1
    /\ UNCHANGED <<selVars, atFlag>>
    /\ UNCHANGED <<ctrl_c_received, track, polls, publishCalls,
                   published, publishFailures, sleeps, firstLoad>>

\* capturer.capture_frame() with the callback run inside it.
LoopCaptureDelivers ==
    /\ pc = "capture"
    /\ ticks < MaxTicks
    /\ \E result \in CaptureResults, frame \in DesktopFrames(ticks + 1) :
           Callback(result, frame)
    /\ ticks' = ticks + 1
    /\ pc' = "poll"
    /\ UNCHANGED <<selVars, atFlag>>
    /\ UNCHANGED <<ctrl_c_received, track, polls, publishCalls,
                   published, publishFailures, sleeps, firstLoad>>

\* capturer.capture_frame() that delivers no frame to the callback.
LoopCaptureSilent ==
    /\ pc = "capture"
    /\ ticks < MaxTicks
    /\ ticks' = ticks + 1
    /\ pc' = "poll"
    /\ UNCHANGED <<selVars, atFlag>>
    /\ UNCHANGED <<ctrl_c_received, track, polls, publishCalls,
                   published, publishFailures, sleeps, firstLoad>>
    /\ UNCHANGED cbVars
    /\ UNCHANGED cbHist

\* Variant: the channel is polled in every second iteration only.
LoopPoll_EveryOther ==
    /\ pc = "poll"
    /\ polls' = polls + 1
    /\ IF chan # <<>> /\ ticks % 2 = 0
          THEN /\ track' = Head(chan)
               /\ chan' = Tail(chan)
               /\ publishCalls' = publishCalls + 1
               /\ pc' = "publish"
          ELSE /\ pc' = "sleep"
               /\ UNCHANGED <<track, chan, publishCalls>>
    /\ UNCHANGED <<selVars, atFlag>>
    /\ UNCHANGED <<ctrl_c_received, stream_width, stream_height, video_frame,
                   video_source, ticks, published, publishFailures, sleeps,
                   firstLoad>>
    /\ UNCHANGED cbHist

\* Variant: publish_track is started but its future is not awaited.
LoopPoll_NoAwait ==
    /\ pc = "poll"
    /\ polls' = polls + 1
    /\ IF chan # <<>>
          THEN /\ track' = Head(chan)
               /\ chan' = Tail(chan)
               /\ publishCalls' = publishCalls + 1
               /\ pc' = "sleep"
          ELSE /\ pc' = "sleep"
               /\ UNCHANGED <<track, chan, publishCalls>>
    /\ UNCHANGED <<selVars, atFlag>>
    /\ UNCHANGED <<ctrl_c_received, stream_width, stream_height, video_frame,
                   video_source, ticks, published, publishFailures, sleeps,
                   firstLoad>>
    /\ UNCHANGED cbHist

\* Variant: the item is read from the channel without being removed.
LoopPoll_Peek ==
    /\ pc = "poll"
    /\ polls' = polls + 1
    /\ IF chan # <<>>
          THEN /\ track' = Head(chan)
               /\ publishCalls' = publishCalls + 1
               /\ pc' = "publish"
               /\ UNCHANGED chan
          ELSE /\ pc' = "sleep"
               /\ UNCHANGED <<track, chan, publishCalls>>
    /\ UNCHANGED <<selVars, atFlag>>
    /\ UNCHANGED <<ctrl_c_received, stream_width, stream_height, video_frame,
                   video_source, ticks, published, publishFailures, sleeps,
                   firstLoad>>
    /\ UNCHANGED cbHist

\* video_source_receiver.try_recv(); on Ok build the track and call
\* publish_track, whose future is then awaited.
LoopPoll ==
    /\ pc = "poll"
    /\ polls' = polls + 1
    /\ IF chan # <<>>
          THEN /\ track' = Head(chan)
               /\ chan' = Tail(chan)
               /\ publishCalls' = publishCalls + 1
               /\ pc' = "publish"
          ELSE /\ pc' = "sleep"
               /\ UNCHANGED <<track, chan, publishCalls>>
    /\ UNCHANGED <<selVars, atFlag>>
    /\ UNCHANGED <<ctrl_c_received, stream_width, stream_height, video_frame,
                   video_source, ticks, published, publishFailures, sleeps,
                   firstLoad>>
    /\ UNCHANGED cbHist

\* publish_track(..).await returned Ok.
PublishOk ==
    /\ pc = "publish"
    /\ pc' = "sleep"
    /\ published' = published + 1
    /\ UNCHANGED <<selVars, atFlag>>
    /\ UNCHANGED <<ctrl_c_received, track, ticks, polls, publishCalls,
                   publishFailures, sleeps, firstLoad>>
    /\ UNCHANGED cbVars
    /\ UNCHANGED cbHist

\* Variant: the Err of publish_track is dropped and the loop goes on.
PublishErr_Ignored ==
    /\ pc = "publish"
    /\ pc' = "sleep"
    /\ publishFailures' = publishFailures + 1
    /\ UNCHANGED <<selVars, atFlag>>
    /\ UNCHANGED <<ctrl_c_received, track, ticks, polls, publishCalls,
                   published, sleeps, firstLoad>>
    /\ UNCHANGED cbVars
    /\ UNCHANGED cbHist

\* publish_track(..).await returned Err: unwrap() panics in main.
PublishErr ==
    /\ pc = "publish"
    /\ pc' = "panicked"
    /\ publishFailures' = publishFailures + 1
    /\ UNCHANGED <<selVars, atFlag>>
    /\ UNCHANGED <<ctrl_c_received, track, ticks, polls, publishCalls,
                   published, sleeps, firstLoad>>
    /\ UNCHANGED cbVars
    /\ UNCHANGED cbHist

\* Variant: the next iteration skips the load of the flag until a track is
\* published.
LoopSleep_SkipCheck ==
    /\ pc = "sleep"
    /\ pc' = IF published = 0 THEN "capture" ELSE "check"
    /\ sleeps' = sleeps + 1
    /\ UNCHANGED <<selVars, atFlag>>
    /\ UNCHANGED <<ctrl_c_received, track, ticks, polls, publishCalls,
                   published, publishFailures, firstLoad>>
    /\ UNCHANGED cbVars
    /\ UNCHANGED cbHist

\* tokio::time::sleep(16 ms).await, then the next iteration.
LoopSleep ==
    /\ pc = "sleep"
    /\ pc' = "check"
    /\ sleeps' = sleeps + 1
    /\ UNCHANGED <<selVars, atFlag>>
    /\ UNCHANGED <<ctrl_c_received, track, ticks, polls, publishCalls,
                   published, publishFailures, firstLoad>>
    /\ UNCHANGED cbVars
    /\ UNCHANGED cbHist

\* -------------------------------------------------------------- Ctrl-C task
CtrlC ==
    /\ pc \notin {"done", "panicked"}
    /\ ~ctrl_c_received
    /\ ctrl_c_received' = TRUE
    /\ atFlag' = [pc |-> pc, ticks |-> ticks, publishCalls |-> publishCalls]
    /\ UNCHANGED selVars
    /\ UNCHANGED <<pc, track>>
    /\ UNCHANGED loopHist
    /\ UNCHANGED cbVars
    /\ UNCHANGED cbHist

\* ------------------------------------------------------------ specification
Loop ==
    \/ LoopCheck
    \/ LoopCaptureDelivers
    \/ LoopCaptureSilent
    \/ LoopPoll
    \/ PublishOk
    \/ PublishErr
    \/ LoopSleep

Next ==
    \/ Loop
    \/ CtrlC

Spec == Init /\ [][Next]_vars

\* The Tokio runtime keeps polling the main task: a loop step that is
\* possible is eventually taken.  The Ctrl-C signal may never come.
FairSpec == Spec /\ WF_vars(Loop)

\* -------------------------------------------------------- source selection
\* A CaptureSource: its id and the string its to_string() yields (two
\* sources of a list may yield the same string).
CaptureSources == [id : 1..2, label : {"a", "b"}]

\* The lists capturer.get_source_list() may return.
SourceLists ==
    UNION {[1..n -> CaptureSources] : n \in 0..MaxSources}

Some(value) == [tag |-> "Some", value |-> value]

\* s.to_string() of a CaptureSource.
to_string(s) == s.label

\* The Vec of option strings handed to inquire::Select.
SelectOptions(list) == [i \in 1..Len(list) |-> to_string(list[i])]

\* The HashMap collected from (s.to_string(), s): a later source replaces an
\* earlier one with the same string.
SelectMap(list) ==
    [k \in {to_string(list[i]) : i \in 1..Len(list)} |->
        LET last == CHOOSE i \in 1..Len(list) :
                        /\ to_string(list[i]) = k
                        /\ \A j \in 1..Len(list) :
                               to_string(list[j]) = k => j <= i
        IN  list[last]]

\* Variant: a list of one source is handed to the picker as well.
SelectSource_AlwaysPrompt ==
    /\ pc = "select"
    /\ IF Len(sources) = 0
          THEN /\ selected_source' = None
               /\ pc' = "start"
               /\ UNCHANGED pickerCalls
          ELSE LET options == SelectOptions(sources)
                   map == SelectMap(sources)
               IN  /\ pickerCalls' = pickerCalls + 1
                   /\ \/ \E i \in 1..Len(options) :
                            /\ selected_source' = Some(map[options[i]])
                            /\ pc' = "start"
                      \/ /\ pc' = "panicked"
                         /\ UNCHANGED selected_source
    /\ UNCHANGED <<sources, ctrl_c_received, atFlag, track>>
    /\ UNCHANGED loopHist
    /\ UNCHANGED cbVars
    /\ UNCHANGED cbHist

\* let selected_source = if .. else if .. else ..: None for an empty list,
\* the only source of a list of one, otherwise the picker's choice looked up
\* in the map; an Err of the picker panics.
SelectSource ==
    /\ pc = "select"
    /\ IF Len(sources) = 0
          THEN /\ selected_source' = None
               /\ pc' = "start"
               /\ UNCHANGED pickerCalls
          ELSE IF Len(sources) = 1
          THEN /\ selected_source' = Some(Head(sources))
               /\ pc' = "start"
               /\ UNCHANGED pickerCalls
          ELSE LET options == SelectOptions(sources)
                   map == SelectMap(sources)
               IN  /\ pickerCalls' = pickerCalls + 1
                   /\ \/ \E i \in 1..Len(options) :
                            /\ selected_source' = Some(map[options[i]])
                            /\ pc' = "start"
                      \/ /\ pc' = "panicked"
                         /\ UNCHANGED selected_source
    /\ UNCHANGED <<sources, ctrl_c_received, atFlag, track>>
    /\ UNCHANGED loopHist
    /\ UNCHANGED cbVars
    /\ UNCHANGED cbHist

\* capturer.start_capture(selected_source); the pump loop comes next.
StartCapture ==
    /\ pc = "start"
    /\ pc' = "check"
    /\ UNCHANGED <<selVars, ctrl_c_received, atFlag, track>>
    /\ UNCHANGED loopHist
    /\ UNCHANGED cbVars
    /\ UNCHANGED cbHist

\* main from the source list to the start of the capture.
SelectInit ==
    /\ pc = "select"
    /\ sources \in SourceLists
    /\ selected_source = None
    /\ pickerCalls = 0
    /\ Constructed

SelectNext ==
    \/ SelectSource
    \/ StartCapture

SelectSpec == SelectInit /\ [][SelectNext]_vars

\* ------------------------------------------------------------------ claims
SameSize(a, b) == a.width = b.width /\ a.height = b.height

\* C1: over any sequence of callback invocations the "sink ready"
\* notification is emitted exactly once when at least one ok frame was
\* delivered and not at all otherwise; later ok frames and resolution
\* changes never emit it again.
C1_SinkReadyExactlyOnce ==
    sendAttempts = (IF okFrames > 0 THEN 1 ELSE 0)

\* C1 witness: several ok frames, the latest at another resolution than the
\* first, and still a single notification.
C1_Witness ==
    /\ okFrames >= 3
    /\ lastResult = "Success"
    /\ ~SameSize(lastFrame, firstOk)
    /\ sendAttempts = 1

\* C2: publish_track is called at most once, and the track reaches the
\* published state at most once, whatever the frames and however long the
\* loop runs.
C2_PublishAtMostOnce ==
    publishCalls <= 1 /\ published <= 1

\* C2 witness: the loop kept running and delivering ok frames after the
\* single publish.
C2_Witness ==
    /\ published = 1
    /\ publishCalls = 1
    /\ ticks = MaxTicks
    /\ Len(sinkFrames) >= 2

\* C3: the video source is created at the first ok frame and not before,
\* with that frame's width and height; error frames before it create no
\* source and emit no notification, and the notification carries the source.
C3_SourceCreatedAtFirstOk ==
    /\ okFrames = 0 =>
          /\ video_source = None
          /\ sinksCreated = 0
          /\ sendAttempts = 0
          /\ chan = <<>>
    /\ okFrames > 0 =>
          /\ video_source # None
          /\ SameSize(video_source, firstOk)
    /\ \A i \in 1..Len(chan) :
          chan[i] = video_source /\ SameSize(chan[i], firstOk)

\* C3 witness: an error frame, then the first ok frame at a size other than
\* the initial 1920x1080; the source of that size is queued for the loop.
C3_Witness ==
    /\ callbacks = 2
    /\ okFrames = 1
    /\ lastResult = "Success"
    /\ lastFrame.width # InitialWidth
    /\ lastFrame.height # InitialHeight
    /\ chan = <<video_source>>

\* C4: once the video source exists it is never replaced and its resolution
\* never changes; a resolution change reallocates only the frame buffer.
C4_SourceNeverReplaced ==
    /\ [](sinksCreated <= 1)
    /\ [][video_source # None =>
            /\ video_source' = video_source
            /\ sinksCreated' = sinksCreated]_vars
    /\ [][(video_source # None /\ callbacks' # callbacks
              /\ lastResult' = "Success"
              /\ ~SameSize(lastFrame', video_frame.buffer)) =>
            /\ SameSize(video_frame'.buffer, lastFrame')
            /\ video_source' = video_source]_vars

\* C4 witness: the source exists and the stream has moved to a resolution
\* other than the source's.
C4_Witness ==
    /\ video_source # None
    /\ ~SameSize(video_source, video_frame.buffer)
    /\ Len(sinkFrames) >= 1

\* C5: after every ok callback invocation the known resolution and the
\* dimensions of the frame buffer equal the delivered frame's, and the
\* buffer holds that frame.
C5_BufferMatchesFrame ==
    lastResult = "Success" =>
        /\ stream_width = lastFrame.width
        /\ stream_height = lastFrame.height
        /\ SameSize(video_frame.buffer, lastFrame)
        /\ video_frame.buffer.data = lastFrame.data

\* C5 witness: two ok frames of which the second differs from the first in
\* one dimension only.
C5_Witness ==
    /\ okFrames = 2
    /\ callbacks = 2
    /\ lastFrame.width = firstOk.width
    /\ lastFrame.height # firstOk.height

\* C6: a callback invocation with an error status leaves the known
\* resolution, the frame buffer, the optional source and the channel as they
\* were and writes no frame into the source.
C6_ErrorLeavesStateUnchanged ==
    [][(callbacks' # callbacks /\ lastResult' \in ErrorResults) =>
          /\ UNCHANGED <<stream_width, stream_height, video_frame,
                         video_source, chan>>
          /\ UNCHANGED <<sinkFrames, sendAttempts, sinksCreated>>]_vars

\* C6 witness: a permanent error delivered with a frame of another size
\* than the stream's, after the source exists and has taken frames.
C6_Witness ==
    /\ lastResult = "ErrorPermanent"
    /\ video_source # None
    /\ Len(sinkFrames) >= 1
    /\ lastFrame.width # stream_width

\* C7: when the cancellation flag is already set at the first iteration, the
\* loop calls capture_frame zero times, never polls the channel, never
\* publishes, never sleeps, and has terminated.
C7_CancelledBeforeFirstTick ==
    firstLoad = "set" =>
        /\ pc = "done"
        /\ ticks = 0
        /\ callbacks = 0
        /\ polls = 0
        /\ publishCalls = 0
        /\ sleeps = 0

\* C7 witness: Ctrl-C arrived before the first load of the flag and the loop
\* has left.
C7_Witness ==
    /\ firstLoad = "set"
    /\ pc = "done"
    /\ ctrl_c_received

\* C8: a failed publish_track ends the process: after it there is no further
\* capture tick, no further poll of the channel, no sleep and no second
\* publish.
C8_PublishFailureIsFatal ==
    /\ [](publishFailures > 0 => pc = "panicked" /\ publishCalls = 1)
    /\ [][publishFailures > 0 =>
            /\ ticks' = ticks
            /\ callbacks' = callbacks
            /\ polls' = polls
            /\ sleeps' = sleeps
            /\ publishCalls' = publishCalls]_vars

\* C8 witness: the publish failed while ticks were left and no Ctrl-C had
\* been received.
C8_Witness ==
    /\ publishFailures = 1
    /\ pc = "panicked"
    /\ ticks < MaxTicks
    /\ ~ctrl_c_received

\* C9: an error-status frame never stops the loop: the tick that delivered
\* it goes on to the poll, the loop ends only on the flag or on a failed
\* publish, it reaches the next capture_frame call unless Ctrl-C arrives,
\* and a later ok frame is converted and creates the source if none exists.
C9_ErrorNeverStopsLoop ==
    /\ [][(callbacks' # callbacks /\ lastResult' \in ErrorResults) =>
            pc' = "poll"]_vars
    /\ [](pc = "done" => ctrl_c_received)
    /\ [](pc = "panicked" => publishFailures > 0)
    /\ \A n \in 1..(MaxTicks - 1) :
          (pc = "poll" /\ lastResult \in ErrorResults /\ ticks = n)
              ~> (ticks = n + 1 \/ ctrl_c_received)
    /\ [][(callbacks' # callbacks /\ lastResult' = "Success"
              /\ okFrames > 0 /\ okFrames < callbacks) =>
            /\ video_frame'.buffer.data = lastFrame'.data
            /\ Len(sinkFrames') = Len(sinkFrames) + 1]_vars
    /\ [][(callbacks' # callbacks /\ lastResult' = "Success"
              /\ okFrames = 0 /\ callbacks > 0) =>
            /\ video_frame'.buffer.data = lastFrame'.data
            /\ video_source' # None
            /\ chan' = <<video_source'>>]_vars

\* C9 witness: two error frames, then an ok frame that created the source,
\* with no Ctrl-C.
C9_Witness ==
    /\ callbacks = 3
    /\ okFrames = 1
    /\ lastResult = "Success"
    /\ video_source # None
    /\ ~ctrl_c_received

\* C10: once a track is published the channel is not polled any more, so a
\* further item on it cannot cause another create_video_track /
\* publish_track call.
C10_PolledOnlyWhileUnpublished ==
    [][published > 0 =>
          /\ polls' = polls
          /\ publishCalls' = publishCalls]_vars

\* C11: a list of exactly one source selects that source without the picker;
\* an empty list selects None without the picker; the picker is invoked only
\* for two or more sources, once, and what it yields is a source of the list.
C11_SourceSelection ==
    pc \in {"start", "check"} =>
        /\ Len(sources) = 0 =>
              selected_source = None /\ pickerCalls = 0
        /\ Len(sources) = 1 =>
              selected_source = Some(sources[1]) /\ pickerCalls = 0
        /\ Len(sources) >= 2 =>
              /\ pickerCalls = 1
              /\ \E i \in 1..Len(sources) :
                    selected_source = Some(sources[i])

\* C11 witness: three sources of which two share their string, and the
\* picker's choice was looked up in the map.
C11_Witness ==
    /\ pc = "check"
    /\ Len(sources) = 3
    /\ to_string(sources[1]) = to_string(sources[2])
    /\ sources[1] # sources[2]
    /\ selected_source = Some(sources[2])
    /\ pickerCalls = 1

\* c is n/2 rounded up.
IsHalfRoundedUp(c, n) == 2 * c >= n /\ 2 * c <= n + 1

\* C12: the buffer an ok frame of W x H was converted into has a luma plane
\* of W x H samples and two chroma planes of ceil(W/2) x ceil(H/2) samples,
\* for odd W or H too.
C12_PlaneSizes ==
    lastResult = "Success" =>
        LET planes == Planes(video_frame.buffer)
        IN  /\ planes.y = <<lastFrame.width, lastFrame.height>>
            /\ \A c \in {planes.u, planes.v} :
                  /\ IsHalfRoundedUp(c[1], lastFrame.width)
                  /\ IsHalfRoundedUp(c[2], lastFrame.height)

\* C12 witness: an ok frame of odd width and even height was converted after
\* a frame of another size.
C12_Witness ==
    /\ lastResult = "Success"
    /\ okFrames >= 2
    /\ lastFrame.width % 2 = 1
    /\ lastFrame.height % 2 = 0
    /\ ~SameSize(lastFrame, firstOk)
    /\ video_frame.buffer.data = lastFrame.data

\* C13: an ok frame delivered while the source exists is written into it
\* exactly once, by the invocation that converted it; the first ok frame is
\* converted but not written, so n >= 1 ok frames leave n - 1 written frames.
C13_WrittenFrames ==
    /\ [](Len(sinkFrames) = (IF okFrames = 0 THEN 0 ELSE okFrames - 1))
    /\ [](\A i, j \in 1..Len(sinkFrames) :
             sinkFrames[i].data = sinkFrames[j].data => i = j)
    /\ [][(callbacks' # callbacks /\ lastResult' = "Success"
              /\ video_source # None) =>
            /\ Len(sinkFrames') = Len(sinkFrames) + 1
            /\ SubSeq(sinkFrames', 1, Len(sinkFrames)) = sinkFrames
            /\ sinkFrames'[Len(sinkFrames')].data = lastFrame'.data
            /\ sinkFrames'[Len(sinkFrames')].sink = video_source.id
            /\ SameSize(sinkFrames'[Len(sinkFrames')], lastFrame')]_vars
    /\ [][(callbacks' # callbacks /\ lastResult' = "Success"
              /\ video_source = None) =>
            /\ sinkFrames' = sinkFrames
            /\ video_frame'.buffer.data = lastFrame'.data]_vars

\* C13 witness: three ok frames with error frames among them, two written.
C13_Witness ==
    /\ okFrames = 3
    /\ callbacks > okFrames
    /\ Len(sinkFrames) = 2
    /\ lastResult = "Success"

\* C14: every frame written into the source carries the time of the callback
\* invocation that converted it (the logical clock is the ordinal of the
\* tick, which also identifies the frame's pixels), and the timestamp of the
\* frame buffer does not stay at its initial 0 once an ok frame arrived.
C14_FramesCarryInvocationTime ==
    /\ \A i \in 1..Len(sinkFrames) :
          sinkFrames[i].timestamp_us = sinkFrames[i].data
    /\ okFrames > 0 => video_frame.timestamp_us # InitialTimestamp

\* C15: whenever the callback polls the send, the capacity-1 channel is
\* empty, so the handle is enqueued at once and never lost; the channel
\* never holds more than one item.
C15_SendAlwaysSucceeds ==
    /\ [](Len(chan) <= 1)
    /\ [](sendAttempts = Len(chan) + publishCalls)
    /\ [][sendAttempts' # sendAttempts =>
            /\ chan = <<>>
            /\ chan' = <<video_source'>>]_vars

\* C15 witness: the send was polled after an earlier error frame and the
\* handle sits in the channel.
C15_Witness ==
    /\ sendAttempts = 1
    /\ chan = <<video_source>>
    /\ callbacks >= 2
    /\ pc = "poll"

\* C16: the loop receives the notification in an iteration no earlier than
\* the one whose tick produced it; the source exists before a frame is
\* written into it and before a track built from it is published; the
\* published track wraps the very source the callback writes into.
C16_HandoffOrdering ==
    /\ [][publishCalls' # publishCalls =>
            /\ firstOk # None
            /\ firstOk.data <= ticks
            /\ video_source # None
            /\ track' = video_source]_vars
    /\ [](Len(sinkFrames) > 0 => video_source # None)
    /\ [](track # None =>
            /\ track = video_source
            /\ \A i \in 1..Len(sinkFrames) : sinkFrames[i].sink = track.id)

\* C16 witness: a track was published and frames were written into the
\* source it wraps.
C16_Witness ==
    /\ track # None
    /\ published = 1
    /\ Len(sinkFrames) >= 2
    /\ sinkFrames[1].sink = track.id

\* C17 as claimed: frame writes into the source begin before the track is
\* published, that is, the first write happens while publish_track has not
\* yet returned Ok.
C17_WritesBeginBeforePublish ==
    [][(Len(sinkFrames) = 0 /\ Len(sinkFrames') = 1) => published = 0]_vars

\* C17 as amended: no frame is written into the source before the track is
\* published: every write happens in a capture tick issued after
\* publish_track returned Ok.  No reachable state has a written frame and an
\* unpublished track, so no execution writes before the publish completed.
C17_NoWriteBeforePublish ==
    /\ [](Len(sinkFrames) >= 1 => published = 1)
    /\ [][Len(sinkFrames') > Len(sinkFrames) =>
            published = 1 /\ pc = "capture"]_vars

\* C17 witness: the first frame has just been written, after the publish.
C17_Witness ==
    /\ Len(sinkFrames) = 1
    /\ published = 1
    /\ pc = "poll"
    /\ sinkFrames[1].data > firstOk.data

\* C18: the flag, once set, is never reset; under fair scheduling, with the
\* in-flight publish and sleep completing, the loop then reaches Stopped
\* (or the process has died of a failed publish); Stopped is terminal: no
\* tick, poll, publish or sleep follows it; setting the flag does not abort
\* a publish in flight.
C18_CooperativeCancellation ==
    /\ [][ctrl_c_received => ctrl_c_received']_vars
    /\ (ctrl_c_received /\ ~(pc = "capture" /\ ticks = MaxTicks))
          ~> (pc \in {"done", "panicked"})
    /\ [][pc = "done" =>
            /\ pc' = "done"
            /\ UNCHANGED <<ticks, callbacks, polls, publishCalls, sleeps>>]_vars
    /\ [][(pc = "publish" /\ ctrl_c_received' # ctrl_c_received) =>
            pc' = "publish" /\ track' = track]_vars
    /\ [][(pc = "publish" /\ pc' # "publish") =>
            \/ pc' = "sleep" /\ published' = published + 1
            \/ pc' = "panicked" /\ publishFailures' = publishFailures + 1]_vars

\* C18 witness: the flag was set while the publish was in flight, the
\* publish completed, and the loop then stopped.
C18_Witness ==
    /\ pc = "done"
    /\ atFlag # None
    /\ atFlag.pc = "publish"
    /\ published = 1

\* C19: the loop receives the notification and starts the publish in the
\* iteration in which the callback created the source: no capture tick and
\* no sleep lies between the creation and the start of the publish, and no
\* capture tick is issued while the publish is in flight.
C19_PublishInCreatingIteration ==
    /\ [][publishCalls' # publishCalls =>
            /\ firstOk # None
            /\ firstOk.data = ticks
            /\ okFrames = 1
            /\ sleeps = ticks - 1]_vars
    /\ [](chan # <<>> => pc = "poll" /\ firstOk.data = ticks)
    /\ [][pc = "publish" =>
            /\ ticks' = ticks
            /\ callbacks' = callbacks
            /\ sleeps' = sleeps]_vars

\* C19 witness: the source was created in the third tick, after two ticks
\* without an ok frame, and its publish is in flight in that iteration.
C19_Witness ==
    /\ pc = "publish"
    /\ ticks = 3
    /\ firstOk.data = 3
    /\ sleeps = 2
    /\ track = video_source

\* C20: whenever the Ctrl-C task sets the flag, at most one capture tick and
\* at most one publish are issued afterwards, and a tick is issued only by
\* the iteration that had passed its check when the flag was set.
C20_AtMostOneTickAfterFlag ==
    atFlag # None =>
        /\ ticks - atFlag.ticks <= 1
        /\ publishCalls - atFlag.publishCalls <= 1
        /\ ticks > atFlag.ticks => atFlag.pc = "capture"
        /\ publishCalls > atFlag.publishCalls =>
              atFlag.pc \in {"capture", "poll"}

\* C20 witness: the flag was set between the check and capture_frame; that
\* iteration still ticked and published, and the loop then stopped.
C20_Witness ==
    /\ pc = "done"
    /\ atFlag # None
    /\ atFlag.pc = "capture"
    /\ ticks = atFlag.ticks + 1
    /\ publishCalls = atFlag.publishCalls + 1

====
